---- MODULE Spec2Model ----
(***************************************************************************)
(* KiSAX::Parser (src/kisax.h): a table-driven SAX scanner.  The model     *)
(* keeps the parser object's fields, the bound stream, and a log of the    *)
(* calls made on the event sink.  parse() is modelled one loop iteration   *)
(* per step, because the sink callbacks (which may call stop()) interleave *)
(* with it.  A character is a one-character string, a std::string is a     *)
(* sequence of characters, the stringmap is a function from names to       *)
(* values.                                                                 *)
(***************************************************************************)
EXTENDS Integers, Sequences, FiniteSets, TLC

(***************************************************************************)
(* Bounds of the exploration.                                              *)
(***************************************************************************)
MaxFrags == 2   \* fragments the sources deliver in one run
MaxCalls == 3   \* calls of bind(), parse(), stop() and reset() in one run

(***************************************************************************)
(* enum Symbol                                                             *)
(***************************************************************************)
TAG_BEGIN   == 0
QUESTION    == 1
DELIMITER   == 2
EQUAL       == 3
QUOTE       == 4
SLASH       == 5
EXCLAMATION == 6
MINUS       == 7
UNDERLINE   == 8
DIGIT       == 9
ALPHA       == 10
COLON       == 11
TAG_END     == 12
ANOTHER     == 13
MAXTOKEN    == 14

\* the characters std::isalpha / std::isdigit accept, among those the sources use
Letters == {"a", "b", "e", "h", "i", "t", "x"}
Digits  == {"1", "2"}

getSymbolType(c) ==
    IF c \in Letters THEN ALPHA
    ELSE IF c \in Digits THEN DIGIT
    ELSE CASE c \in {" ", "\n", "\t"} -> DELIMITER
           [] c = "<"  -> TAG_BEGIN
           [] c = ">"  -> TAG_END
           [] c = "?"  -> QUESTION
           [] c = "="  -> EQUAL
           [] c = "\"" -> QUOTE
           [] c = "/"  -> SLASH
           [] c = "!"  -> EXCLAMATION
           [] c = "-"  -> MINUS
           [] c = "_"  -> UNDERLINE
           [] c = ":"  -> COLON
           [] OTHER    -> ANOTHER

(***************************************************************************)
(* Exception::ErrorCodes                                                   *)
(***************************************************************************)
KISAX_ERROR_CLOSE_STYLE_TAG             == 200
KISAX_ERROR_CLOSING_TAG_WITH_NO_BODY    == 201
KISAX_ERROR_CLOSING_TAG_WITH_ATTRIBUTES == 202
KISAX_ERROR_BAD_STREAM                  == 203
KISAX_ERROR_PARSING                     == 204
NoError == 0

(***************************************************************************)
(* _states: the transition table, one row of MAXTOKEN entries per state    *)
(***************************************************************************)
states_table ==
    <<  1,-1, 0,-1,-1,-1,-1,-1,-1,-1,-1,-1,-1,-1,
       -1,17,-1,-1,-1,-1,-1,-1,-1,-1,-1,-1,-1,-1,
       -1,17,-1,-1,-1, 9,18,-1, 3, 3, 3,-1,-1,-1,
       -1, 4, 5,-1,-1, 7,-1, 3, 3, 3, 3, 3, 6,-1,
       -1,-1,-1,-1,-1,-1,-1,-1,-1,-1,-1,-1, 6,-1,
       -1, 4,-1,-1,-1, 7,-1,-1,-1,-1,11,-1, 6,-1,
       -1,-1,-1,-1,-1,-1,-1,-1,-1,-1,-1,-1,-1,-1,
       -1,-1,-1,-1,-1,-1,-1,-1,-1,-1,-1,-1, 6,-1,
        2,10, 8,10,10,10,10,10,10,10,10,10,10,10,
       -1,-1, 0,-1,-1,-1,-1,-1, 3, 3, 3,-1,-1,-1,
       16,10,10,10,10,10,10,10,10,10,10,10,10,10,
       -1,-1,-1,12,-1,-1,-1,11,11,11,11,-1,-1,-1,
       -1,-1,-1,-1,14,-1,-1,-1,-1,-1,-1,-1,-1,-1,
       13,13,13,13,15,13,13,13,13,13,13,13,13,13,
       13,13,13,13,15,13,13,13,13,13,13,13,13,13,
       -1, 4, 5,-1,-1, 7,-1,-1,-1,-1,-1,-1, 6,-1,
       -1,-1,-1,-1,-1,-1,-1,-1,-1,-1,-1,-1,-1,-1,
       -1,-1,-1,-1,-1,-1,-1,-1, 3, 3, 3,-1,-1,-1,
       -1,-1,-1,-1,-1,-1,-1,19,-1,-1,-1,-1,-1,-1,
       -1,-1,-1,-1,-1,-1,-1,20,-1,-1,-1,-1,-1,-1,
       21,21,21,21,21,21,21,22,21,21,21,21,21,21,
       21,21,21,21,21,21,21,22,21,21,21,21,21,21,
       24,24,24,24,24,24,24,23,24,24,24,24,24,24,
       -1,-1,-1,-1,-1,-1,-1,-1,-1,-1,-1,-1,25,-1,
       -1,-1,-1,-1,-1,-1,-1,-1,-1,-1,-1,-1,-1,-1,
       -1,-1,-1,-1,-1,-1,-1,-1,-1,-1,-1,-1,-1,-1 >>

\* slips of the table: row 1 also accepting a letter as the start of a tag
\* name; row 23 treating a character other than ">" as comment content
m_states_letter(state, sym) ==
    IF state = 1 /\ sym = ALPHA THEN 3 ELSE states_table[state * MAXTOKEN + sym + 1]
m_states_dashes(state, sym) ==
    IF state = 23 /\ sym # TAG_END THEN 21 ELSE states_table[state * MAXTOKEN + sym + 1]

\* slip: row 8 treating a blank as the first character of a text
m_states_blanktext(state, sym) ==
    IF state = 8 /\ sym = DELIMITER THEN 10 ELSE states_table[state * MAXTOKEN + sym + 1]
\* m_states[m_state*MAXTOKEN + getSymbolType(c)], for an index inside the table
m_states(state, sym) == states_table[state * MAXTOKEN + sym + 1]


(***************************************************************************)
(* The parser object and its environment                                   *)
(***************************************************************************)
VARIABLES
    m_state,            \* int m_state
    m_current_char,     \* char m_current_char
    m_is,               \* std::istream* m_is, with the state of the stream it points to
    m_text,             \* std::string m_text
    m_tag,              \* std::string m_tag
    m_attributes,       \* stringmap m_attributes
    m_attribute_first,  \* std::string m_attribute_first
    m_attribute_second, \* std::string m_attribute_second
    m_comment,          \* std::string m_comment
    m_is_style,         \* bool m_is_style
    m_is_closing_tag,   \* bool m_is_closing_tag
    m_is_tag_no_body,   \* bool m_is_tag_no_body
    m_stop_flag,        \* bool m_stop_flag
    pc,                 \* "idle": no parse() call is active; "loop": inside the while of parse()
    thrown,             \* the error code that ended the last parse() call, NoError if it returned
    events,             \* the calls made on the event sink since construction / reset()
    evPos,              \* history: evPos[i] = number of characters scanned when events[i] was made
    stopIn,             \* history: index in events of the callback that made the pending stop(), or 0
    taken,              \* history: the characters extracted from the sources since construction / reset()
    scanned,            \* history: the characters looked up in the transition table since then
    fails,              \* history: the values of Len(scanned) at which a parse() call threw since then
    nparse,             \* history: the number of parse() calls since then
    nstop,              \* history: the number of stop() calls since then
    ub,                 \* history: the table was indexed with a negative state since then
    lastOp,             \* history: the step taken last
    frags, calls        \* counters of the bounded exploration: fragments delivered, calls made

ctxvars == << m_state, m_current_char, m_text, m_tag, m_attributes, m_attribute_first,
              m_attribute_second, m_comment, m_is_style, m_is_closing_tag,
              m_is_tag_no_body, m_stop_flag >>
histvars == << evPos, stopIn, taken, scanned, fails, nparse, nstop, ub, lastOp >>
counters == << frags, calls >>
vars == << ctxvars, m_is, pc, thrown, events, histvars, counters >>

\* the empty stringmap; std::string() is the empty sequence
EmptyMap == << >>
NoChar == ""

\* std::map::insert: an existing key keeps its value
MapInsert(m, k, v) ==
    IF k \in DOMAIN m THEN m
    ELSE [x \in (DOMAIN m) \cup {k} |-> IF x = k THEN v ELSE m[x]]

(***************************************************************************)
(* The working copy of the parser the action routines operate on: the      *)
(* fields, the sink log, and the exception an action has thrown.           *)
(***************************************************************************)
Ctx ==
    [ m_state |-> m_state, m_current_char |-> m_current_char, m_text |-> m_text,
      m_tag |-> m_tag, m_attributes |-> m_attributes,
      m_attribute_first |-> m_attribute_first, m_attribute_second |-> m_attribute_second,
      m_comment |-> m_comment, m_is_style |-> m_is_style,
      m_is_closing_tag |-> m_is_closing_tag, m_is_tag_no_body |-> m_is_tag_no_body,
      m_stop_flag |-> m_stop_flag,
      events |-> events, stopIn |-> stopIn, nstop |-> nstop, calls |-> calls,
      thrown |-> NoError ]

Throw(p, code) == [p EXCEPT !.thrown = code]

\* Parser::stop
stop(p) == [p EXCEPT !.m_stop_flag = TRUE]

\* a virtual handler of the sink is called; callsStop: the handler calls stop()
Sink(p, call, callsStop) ==
    LET q == [p EXCEPT !.events = Append(@, call)]
    IN  IF callsStop
        THEN [stop(q) EXCEPT !.stopIn = Len(q.events), !.nstop = @ + 1, !.calls = @ + 1]
        ELSE q

documentStart == [call |-> "documentStart"]
documentEnd   == [call |-> "documentEnd"]
elementStart(tagname, attributes)     == [call |-> "elementStart", name |-> tagname, attrs |-> attributes]
elementEnd(tagname)                   == [call |-> "elementEnd", name |-> tagname]
textHandle(rawtext)                   == [call |-> "textHandle", text |-> rawtext]
definitionHandle(definition, attributes) == [call |-> "definitionHandle", name |-> definition, attrs |-> attributes]
commentHandle(comment)                == [call |-> "commentHandle", text |-> comment]

(***************************************************************************)
(* The action routines.  s is the pair of choices "the handler calls       *)
(* stop()" for the first and the second sink call the routine makes.       *)
(***************************************************************************)
do_nothing(p, s) == p
do_style_on(p, s) == [p EXCEPT !.m_is_style = TRUE]
do_tag_pushback(p, s) == [p EXCEPT !.m_tag = Append(@, p.m_current_char)]
do_commentary_pushback(p, s) == [p EXCEPT !.m_comment = Append(@, p.m_current_char)]
do_commentary_end(p, s) ==
    [Sink(p, commentHandle(p.m_comment), s[1]) EXCEPT !.m_comment = << >>, !.m_state = 8]
do_comment_minus_mark(p, s) == [p EXCEPT !.m_comment = Append(@, "-"), !.m_state = 21]
do_tag_clear(p, s) == [p EXCEPT !.m_tag = << >>]
\* slip: the text is flushed but the scanner is left in the fictive state
do_text_end_stay(p, s) ==
    [Sink(p, textHandle(p.m_text), s[1]) EXCEPT !.m_text = << >>]
do_text_end(p, s) ==
    [Sink(p, textHandle(p.m_text), s[1]) EXCEPT !.m_text = << >>, !.m_state = 2]
\* slip: m_attributes[m_attribute_first] = m_attribute_second, which overwrites
do_attribute_store_assign(p, s) ==
    [p EXCEPT !.m_attributes =
                 [x \in (DOMAIN @) \cup {p.m_attribute_first} |->
                     IF x = p.m_attribute_first THEN p.m_attribute_second ELSE @[x]],
              !.m_attribute_first = << >>,
              !.m_attribute_second = << >>]
do_attribute_store(p, s) ==
    [p EXCEPT !.m_attributes = MapInsert(@, p.m_attribute_first, p.m_attribute_second),
              !.m_attribute_first = << >>,
              !.m_attribute_second = << >>]
do_all_clear(p) ==
    [p EXCEPT !.m_is_closing_tag = FALSE, !.m_is_style = FALSE, !.m_is_tag_no_body = FALSE,
              !.m_text = << >>, !.m_tag = << >>, !.m_attributes = EmptyMap,
              !.m_attribute_first = << >>, !.m_attribute_second = << >>]
do_attribute_first_pushback(p, s) == [p EXCEPT !.m_attribute_first = Append(@, p.m_current_char)]
do_attribute_second_pushback(p, s) == [p EXCEPT !.m_attribute_second = Append(@, p.m_current_char)]
do_is_style_on(p, s) ==
    IF ~p.m_is_style THEN Throw(p, KISAX_ERROR_CLOSE_STYLE_TAG) ELSE p
\* slip: the elementEnd of an empty-element tag is made before the dispatch
do_tag_end_swapped(p, s) ==
    LET first ==
            IF p.m_is_tag_no_body THEN Sink(p, elementEnd(p.m_tag), s[1]) ELSE p
        second ==
            IF first.m_is_style
            THEN Sink([first EXCEPT !.m_is_style = FALSE],
                      definitionHandle(first.m_tag, first.m_attributes), s[2])
            ELSE IF first.m_is_closing_tag
            THEN IF first.m_attributes # EmptyMap
                 THEN Throw(first, KISAX_ERROR_CLOSING_TAG_WITH_ATTRIBUTES)
                 ELSE Sink(first, elementEnd(first.m_tag), s[2])
            ELSE Sink(first, elementStart(first.m_tag, first.m_attributes), s[2])
    IN  IF second.thrown # NoError THEN second
        ELSE [do_all_clear(second) EXCEPT !.m_state = 8]
\* slip: a closing tag is not checked for attributes
do_tag_end_unchecked(p, s) ==
    LET first ==
            IF p.m_is_style
            THEN Sink([p EXCEPT !.m_is_style = FALSE],
                      definitionHandle(p.m_tag, p.m_attributes), s[1])
            ELSE IF p.m_is_closing_tag
            THEN Sink(p, elementEnd(p.m_tag), s[1])
            ELSE Sink(p, elementStart(p.m_tag, p.m_attributes), s[1])
        second ==
            IF first.m_is_tag_no_body
            THEN Sink(first, elementEnd(first.m_tag), s[2])
            ELSE first
    IN  [do_all_clear(second) EXCEPT !.m_state = 8]
\* slip: a closing tag is refused unless an element of its name was opened
do_tag_end_nested(p, s) ==
    LET opened == \E k \in DOMAIN p.events :
                     p.events[k].call = "elementStart" /\ p.events[k].name = p.m_tag
        first ==
            IF p.m_is_style
            THEN Sink([p EXCEPT !.m_is_style = FALSE],
                      definitionHandle(p.m_tag, p.m_attributes), s[1])
            ELSE IF p.m_is_closing_tag
            THEN IF p.m_attributes # EmptyMap
                 THEN Throw(p, KISAX_ERROR_CLOSING_TAG_WITH_ATTRIBUTES)
                 ELSE IF ~opened THEN Throw(p, KISAX_ERROR_PARSING)
                 ELSE Sink(p, elementEnd(p.m_tag), s[1])
            ELSE Sink(p, elementStart(p.m_tag, p.m_attributes), s[1])
        second ==
            IF first.thrown = NoError /\ first.m_is_tag_no_body
            THEN Sink(first, elementEnd(first.m_tag), s[2])
            ELSE first
    IN  IF second.thrown # NoError THEN second
        ELSE [do_all_clear(second) EXCEPT !.m_state = 8]
do_tag_end(p, s) ==
    LET first ==
            IF p.m_is_style
            THEN Sink([p EXCEPT !.m_is_style = FALSE],
                      definitionHandle(p.m_tag, p.m_attributes), s[1])
            ELSE IF p.m_is_closing_tag
            THEN IF p.m_attributes # EmptyMap
                 THEN Throw(p, KISAX_ERROR_CLOSING_TAG_WITH_ATTRIBUTES)
                 ELSE Sink(p, elementEnd(p.m_tag), s[1])
            ELSE Sink(p, elementStart(p.m_tag, p.m_attributes), s[1])
        second ==
            IF first.thrown = NoError /\ first.m_is_tag_no_body
            THEN Sink(first, elementEnd(first.m_tag), s[2])
            ELSE first
    IN  IF second.thrown # NoError THEN second
        ELSE [do_all_clear(second) EXCEPT !.m_state = 8]
\* slip: a closing tag is not refused
do_tag_wobody_close_unchecked(p, s) ==
    IF p.m_is_style THEN Throw(p, KISAX_ERROR_CLOSE_STYLE_TAG)
    ELSE [p EXCEPT !.m_is_tag_no_body = TRUE]
do_tag_wobody_close(p, s) ==
    IF p.m_is_style THEN Throw(p, KISAX_ERROR_CLOSE_STYLE_TAG)
    ELSE IF p.m_is_closing_tag THEN Throw(p, KISAX_ERROR_CLOSING_TAG_WITH_NO_BODY)
    ELSE [p EXCEPT !.m_is_tag_no_body = TRUE]
do_tag_is_closing(p, s) ==
    IF p.m_is_style THEN Throw(p, KISAX_ERROR_CLOSE_STYLE_TAG)
    ELSE [p EXCEPT !.m_is_closing_tag = TRUE]
do_text_pushback(p, s) == [p EXCEPT !.m_text = Append(@, p.m_current_char)]

\* _rules: (this->*(m_rules[state]))()
m_rules(state, p, s) ==
    CASE state = 3  -> do_tag_pushback(p, s)
      [] state = 4  -> do_is_style_on(p, s)
      [] state = 6  -> do_tag_end(p, s)
      [] state = 7  -> do_tag_wobody_close(p, s)
      [] state = 9  -> do_tag_is_closing(p, s)
      [] state = 10 -> do_text_pushback(p, s)
      [] state = 11 -> do_attribute_first_pushback(p, s)
      [] state = 13 -> do_attribute_second_pushback(p, s)
      [] state = 15 -> do_attribute_store(p, s)
      [] state = 16 -> do_text_end(p, s)
      [] state = 17 -> do_style_on(p, s)
      [] state = 21 -> do_commentary_pushback(p, s)
      [] state = 24 -> do_comment_minus_mark(p, s)
      [] state = 25 -> do_commentary_end(p, s)
      [] OTHER      -> do_nothing(p, s)

(***************************************************************************)
(* The sources.  A stream is [buf: the characters it has ready, st: "null" *)
(* (no stream), "good", "eof" or "bad" (the error state of the stream)];   *)
(* its content is a concatenation of fragments, chosen as it is read.      *)
(***************************************************************************)
NoStream == [buf |-> << >>, st |-> "null", gen |-> FALSE]
GenStream == [buf |-> << >>, st |-> "good", gen |-> TRUE]

\* the end-to-end examples of the documentation, and variations of them
DocElems    == << "<","a"," ","x","=","\"","1","\"",">","<","b","/",">","t","e","x","t","<","/","a",">" >>
DocProlog   == << "<","?","x","?",">" >>
DocClosing  == << "<","/","a"," ","a","=","\"","1","\"",">" >>
DocComment  == << "<","!","-","-"," ","h","i"," ","-","-",">" >>
DocMinus    == << "<","!","-","-","a","-","b","-","-",">" >>
DocDup      == << "<","b"," ","x","=","\"","2","\"",">",
                 "<","a"," ","x","=","\"","1","\""," ","x","=","\"","2","\"","/",">" >>
\* <?x?><a> hi </b><a  >: blanks around a text, a closing tag that matches no
\* open element, and a run of blanks in a tag
DocLoose    == DocProlog \o << "<","a",">"," ","h","i"," ","<","/","b",">",
                               "<","a"," "," ",">" >>
\* <?x?></ <?x?>: a blank after "</", then a definition tag
DocStray    == DocProlog \o << "<","/"," " >> \o DocProlog

\* the pieces the content of a source is made of
Fragments ==
    { DocProlog, DocElems, DocClosing, DocComment, DocMinus, DocDup, DocLoose,
      DocStray,
      << "<","?","a" >>, << "<","a" >>, DocProlog \o << "<","/","b" >>,
      << " ","x","=","\"","1","\"" >>, << " ","x","=","\"","2","\"" >>,
      DocProlog \o << "<","!","-","-" >>, << "-","-" >>,
      << ">" >>, << "/" >>, << "?" >>, << " " >>, << "-" >>, << "a" >> }

\* m_is->get(m_current_char): the possible outcomes of one extraction
Gets(is, nfrags) ==
    IF is.st # "good" THEN {[kind |-> is.st, c |-> NoChar, is |-> is, new |-> 0]}
    ELSE IF is.buf # << >>
    THEN {[kind |-> "char", c |-> Head(is.buf), is |-> [is EXCEPT !.buf = Tail(@)], new |-> 0]}
    ELSE (IF is.gen /\ nfrags < MaxFrags
          THEN {[kind |-> "char", c |-> Head(f), is |-> [is EXCEPT !.buf = Tail(f)], new |-> 1]
                    : f \in Fragments}
          ELSE {})
         \cup {[kind |-> "eof", c |-> NoChar, is |-> [is EXCEPT !.st = "eof"], new |-> 0]}
         \cup (IF is.gen
               THEN {[kind |-> "bad", c |-> NoChar, is |-> [is EXCEPT !.st = "bad"], new |-> 0]}
               ELSE {})

(***************************************************************************)
(* Parser::parse, piece by piece                                           *)
(***************************************************************************)
\* slip: documentStart is made on every call
ParseEntry_always(p, s) ==
    [Sink(p, documentStart, s[1]) EXCEPT !.m_stop_flag = FALSE, !.stopIn = 0]
\* lines 214-215: documentStart unless a stop is pending, then the flag is cleared
ParseEntry(p, s) ==
    [(IF ~p.m_stop_flag THEN Sink(p, documentStart, s[1]) ELSE p)
        EXCEPT !.m_stop_flag = FALSE, !.stopIn = 0]

\* lines 218-220: the body of the while loop for the character c, next being
\* the table entry read for it
LoopBody(p, c, next, s) ==
    LET q == [p EXCEPT !.m_current_char = c, !.m_state = next]
    IN  IF next < 0 THEN Throw(q, KISAX_ERROR_PARSING)
        ELSE m_rules(next, q, s)

\* slip: documentEnd is made however the loop ended
LoopExit_lenient(p, eof, s) == Sink(p, documentEnd, s[1])
\* slip: the end of the input inside a tag, a text or a comment is an error
LoopExit_strict(p, eof, s) ==
    IF ~p.m_stop_flag /\ ~eof THEN Throw(p, KISAX_ERROR_BAD_STREAM)
    ELSE IF ~p.m_stop_flag /\ p.m_state \notin {0, 8} THEN Throw(p, KISAX_ERROR_PARSING)
    ELSE Sink(p, documentEnd, s[1])
\* lines 222-223: after the loop; eof is m_is->eof()
LoopExit(p, eof, s) ==
    IF ~p.m_stop_flag /\ ~eof THEN Throw(p, KISAX_ERROR_BAD_STREAM)
    ELSE Sink(p, documentEnd, s[1])

\* what an out-of-bounds read of m_states (a negative m_state) may deliver:
\* any int; the values that matter are the error value and the valid states
WildStates == -1 .. 25

Commit(r, pos) ==
    /\ m_state' = r.m_state
    /\ m_current_char' = r.m_current_char
    /\ m_text' = r.m_text
    /\ m_tag' = r.m_tag
    /\ m_attributes' = r.m_attributes
    /\ m_attribute_first' = r.m_attribute_first
    /\ m_attribute_second' = r.m_attribute_second
    /\ m_comment' = r.m_comment
    /\ m_is_style' = r.m_is_style
    /\ m_is_closing_tag' = r.m_is_closing_tag
    /\ m_is_tag_no_body' = r.m_is_tag_no_body
    /\ m_stop_flag' = r.m_stop_flag
    /\ events' = r.events
    /\ evPos' = evPos \o [i \in 1 .. (Len(r.events) - Len(events)) |-> pos]
    /\ stopIn' = r.stopIn
    /\ nstop' = r.nstop
    /\ fails' = IF r.thrown = NoError THEN fails ELSE fails \cup {pos}
    /\ calls' = r.calls
    /\ calls' <= MaxCalls

Choices == BOOLEAN \X BOOLEAN

Init ==
    /\ m_state = 0
    /\ m_current_char = NoChar
    /\ m_is \in {NoStream, GenStream}
    /\ m_text = << >> /\ m_tag = << >> /\ m_attributes = EmptyMap
    /\ m_attribute_first = << >> /\ m_attribute_second = << >> /\ m_comment = << >>
    /\ m_is_style = FALSE /\ m_is_closing_tag = FALSE /\ m_is_tag_no_body = FALSE
    /\ m_stop_flag = FALSE
    /\ pc = "idle" /\ thrown = NoError
    /\ events = << >> /\ evPos = << >> /\ stopIn = 0
    /\ taken = << >> /\ scanned = << >> /\ fails = {} /\ nparse = 0 /\ nstop = 0
    /\ ub = FALSE /\ lastOp = "construct"
    /\ frags = 0 /\ calls = 0

\* Parser::bind
Bind ==
    /\ pc = "idle" /\ calls < MaxCalls
    /\ m_is' = GenStream
    /\ calls' = calls + 1
    /\ lastOp' = "bind"
    /\ UNCHANGED << ctxvars, pc, thrown, events, evPos, stopIn, taken, scanned, fails,
                    nparse, nstop, ub, frags >>

\* Parser::parse, line 213: no stream is bound
ParseNoStream ==
    /\ pc = "idle" /\ calls < MaxCalls
    /\ m_is.st = "null"
    /\ thrown' = KISAX_ERROR_BAD_STREAM
    /\ fails' = fails \cup {Len(scanned)}
    /\ nparse' = nparse + 1
    /\ calls' = calls + 1
    /\ lastOp' = "parse"
    /\ UNCHANGED << ctxvars, m_is, pc, events, evPos, stopIn, taken, scanned, nstop, ub,
                    frags >>

\* Parser::parse, lines 213-215: up to the while loop
ParseCall ==
    /\ pc = "idle" /\ calls < MaxCalls
    /\ m_is.st # "null"
    /\ \E s \in Choices :
         Commit(ParseEntry([Ctx EXCEPT !.calls = @ + 1], s), Len(scanned))
    /\ pc' = "loop"
    /\ thrown' = NoError
    /\ nparse' = nparse + 1
    /\ lastOp' = "parse"
    /\ UNCHANGED << m_is, taken, scanned, ub, frags >>

\* one iteration of the loop: a character is extracted, no stop is pending
ParseChar ==
    /\ pc = "loop" /\ ~m_stop_flag /\ m_state >= 0
    /\ \E g \in Gets(m_is, frags), s \in Choices :
         /\ g.kind = "char"
         /\ LET r == LoopBody(Ctx, g.c, m_states(m_state, getSymbolType(g.c)), s)
            IN  /\ scanned' = Append(scanned, g.c)
                /\ Commit(r, Len(scanned) + 1)
                /\ thrown' = r.thrown
                /\ pc' = IF r.thrown = NoError THEN "loop" ELSE "idle"
         /\ taken' = Append(taken, g.c)
         /\ m_is' = g.is
         /\ frags' = frags + g.new
    /\ lastOp' = "char"
    /\ UNCHANGED << nparse, ub >>

\* one iteration of the loop entered with the error value in m_state (parse()
\* called again after a Parsing failure): the table is read out of bounds
ParseWild ==
    /\ pc = "loop" /\ ~m_stop_flag /\ m_state < 0
    /\ \E g \in Gets(m_is, frags), s \in Choices, next \in WildStates :
         /\ g.kind = "char"
         /\ LET r == LoopBody(Ctx, g.c, next, s)
            IN  /\ scanned' = Append(scanned, g.c)
                /\ Commit(r, Len(scanned) + 1)
                /\ thrown' = r.thrown
                /\ pc' = IF r.thrown = NoError THEN "loop" ELSE "idle"
         /\ taken' = Append(taken, g.c)
         /\ m_is' = g.is
         /\ frags' = frags + g.new
    /\ ub' = TRUE
    /\ lastOp' = "char"
    /\ UNCHANGED nparse

\* the loop condition with a stop pending: the character is extracted, then
\* the flag ends the loop
ParseStopped ==
    /\ pc = "loop" /\ m_stop_flag
    /\ \E g \in Gets(m_is, frags), s \in Choices :
         /\ g.kind = "char"
         /\ scanned' = scanned
         /\ Commit(LoopExit([Ctx EXCEPT !.m_current_char = g.c], FALSE, s), Len(scanned))
         /\ taken' = Append(taken, g.c)
         /\ m_is' = g.is
         /\ frags' = frags + g.new
    /\ thrown' = NoError
    /\ pc' = "idle"
    /\ lastOp' = "stopped"
    /\ UNCHANGED << nparse, ub >>

\* the extraction fails: end of input, or an error of the stream
ParseEnd ==
    /\ pc = "loop"
    /\ \E g \in Gets(m_is, frags), s \in Choices :
         /\ g.kind # "char"
         /\ LET r == LoopExit(Ctx, g.kind = "eof", s)
            IN  /\ scanned' = scanned
                /\ Commit(r, Len(scanned))
                /\ thrown' = r.thrown
         /\ m_is' = g.is
    /\ pc' = "idle"
    /\ lastOp' = "end"
    /\ UNCHANGED << taken, nparse, ub, frags >>

\* Parser::stop, called outside a handler
Stop ==
    /\ pc = "idle" /\ calls < MaxCalls
    /\ m_stop_flag' = TRUE
    /\ stopIn' = 0
    /\ nstop' = nstop + 1
    /\ calls' = calls + 1
    /\ lastOp' = "stop"
    /\ UNCHANGED << m_state, m_current_char, m_text, m_tag, m_attributes, m_attribute_first,
                    m_attribute_second, m_comment, m_is_style, m_is_closing_tag,
                    m_is_tag_no_body, m_is, pc, thrown, events, evPos, taken,
                    scanned, fails, nparse, ub, frags >>

\* Parser::reset
Reset ==
    /\ pc = "idle" /\ calls < MaxCalls
    /\ m_state' = 0
    /\ LET r == do_all_clear([Ctx EXCEPT !.m_is_style = FALSE, !.m_is_closing_tag = FALSE,
                                         !.m_is_tag_no_body = FALSE, !.m_stop_flag = FALSE])
       IN  /\ m_text' = r.m_text /\ m_tag' = r.m_tag /\ m_attributes' = r.m_attributes
           /\ m_attribute_first' = r.m_attribute_first
           /\ m_attribute_second' = r.m_attribute_second
           /\ m_comment' = r.m_comment
           /\ m_is_style' = r.m_is_style /\ m_is_closing_tag' = r.m_is_closing_tag
           /\ m_is_tag_no_body' = r.m_is_tag_no_body /\ m_stop_flag' = r.m_stop_flag
    /\ events' = << >> /\ evPos' = << >> /\ stopIn' = 0
    /\ taken' = << >> /\ scanned' = << >> /\ fails' = {} /\ nparse' = 0 /\ nstop' = 0
    /\ ub' = FALSE
    /\ calls' = calls + 1
    /\ lastOp' = "reset"
    /\ UNCHANGED << m_current_char, m_is, pc, thrown, frags >>

Next ==
    \/ Bind
    \/ ParseNoStream
    \/ ParseCall
    \/ ParseChar
    \/ ParseStopped
    \/ ParseEnd
    \/ Stop
    \/ Reset

\* every run in which the transition table is only read inside its bounds
Spec == Init /\ [][Next]_vars

\* the runs that also resume parse() with the error value left in m_state
NextWild == Next \/ ParseWild
SpecWild == Init /\ [][NextWild]_vars

(***************************************************************************)
(* A reference reading of the input, independent of the tables: where the  *)
(* tags, the quoted values, the comments and the text runs of a character  *)
(* sequence begin and end.  The properties below compare the sink calls    *)
(* with it.                                                                *)
(***************************************************************************)
Blank == {" ", "\n", "\t"}
CommentOpen == << "<", "!", "-", "-" >>
CommentClose == << "-", "-", ">" >>

\* the last k elements of q
Tail_k(q, k) == SubSeq(q, Len(q) - k + 1, Len(q))

\* mode: what the scanner is inside of after the characters read so far;
\* start: index of its first character; done/from: the construct the last
\* character completed ("none" if it completed nothing) and where it began
RefStart == [mode |-> "text", start |-> 1, done |-> "none", from |-> 0]

RefStep(r, chars, i) ==
    LET c == chars[i]
        keep == [r EXCEPT !.done = "none", !.from = 0]
    IN  CASE r.mode = "text" ->
               IF c = "<"
               THEN [mode |-> "tag", start |-> i,
                     done |-> IF i > r.start THEN "text" ELSE "none", from |-> r.start]
               ELSE keep
          [] r.mode = "tag" ->
               IF c = "\"" THEN [keep EXCEPT !.mode = "quote"]
               ELSE IF c = ">"
               THEN [mode |-> "text", start |-> i + 1, done |-> "tag", from |-> r.start]
               ELSE IF c = "<" THEN [keep EXCEPT !.start = i]
               ELSE IF SubSeq(chars, r.start, i) = CommentOpen
               THEN [keep EXCEPT !.mode = "comment"]
               ELSE keep
          [] r.mode = "quote" ->
               IF c = "\"" THEN [keep EXCEPT !.mode = "tag"] ELSE keep
          [] r.mode = "comment" ->
               IF i - (r.start + 3) >= 3 /\ SubSeq(chars, i - 2, i) = CommentClose
               THEN [mode |-> "text", start |-> i + 1, done |-> "comment", from |-> r.start]
               ELSE keep

RECURSIVE RefLex(_, _, _)
RefLex(chars, i, r) ==
    IF i > Len(chars) THEN r ELSE RefLex(chars, i + 1, RefStep(r, chars, i))

\* the reading of everything scanned, and of everything but the last character
Ref     == RefLex(scanned, 1, RefStart)
RefPrev == RefLex(SubSeq(scanned, 1, Len(scanned) - 1), 1, RefStart)

\* a tag text t, from its "<" on: its opening marker, its name, its attributes
Opener(t) ==
    IF Len(t) >= 2 /\ t[2] = "?" THEN "<?"
    ELSE IF Len(t) >= 2 /\ t[2] = "/" THEN "</"
    ELSE "<"
NameEnd(t, from) ==
    LET stops == {i \in from .. Len(t) : t[i] \in Blank \cup {"/", "?", ">"}}
    IN  IF stops = {} THEN Len(t) ELSE (CHOOSE i \in stops : \A j \in stops : i <= j) - 1
TagName(t) ==
    LET from == Len(Opener(t)) + 1 IN SubSeq(t, from, NameEnd(t, from))

\* the name="value" pairs of t in their order: a value lies between two
\* quotes, its name between the last blank before it and the "="
RECURSIVE RefPairs(_, _, _, _, _)
RefPairs(t, i, nameAt, valueAt, acc) ==
    IF i > Len(t) THEN acc
    ELSE IF valueAt = 0
    THEN IF t[i] = "\"" THEN RefPairs(t, i + 1, nameAt, i + 1, acc)
         ELSE IF t[i] \in Blank THEN RefPairs(t, i + 1, i + 1, 0, acc)
         ELSE RefPairs(t, i + 1, nameAt, 0, acc)
    ELSE IF t[i] = "\""
    THEN RefPairs(t, i + 1, i + 1, 0,
                  Append(acc, << SubSeq(t, nameAt, valueAt - 3), SubSeq(t, valueAt, i - 1) >>))
    ELSE RefPairs(t, i + 1, nameAt, valueAt, acc)
Pairs(t) == RefPairs(t, 1, 1, 0, << >>)

\* the mapping in which every name has the value of its first pair
FirstWins(pairs) ==
    [n \in {pairs[j][1] : j \in DOMAIN pairs} |->
        pairs[CHOOSE j \in DOMAIN pairs :
                 /\ pairs[j][1] = n
                 /\ \A k \in DOMAIN pairs : pairs[k][1] = n => j <= k][2]]

\* the sink calls made while Len(scanned) was n, in their order
AtPos(n) ==
    LET idx == {i \in DOMAIN events : evPos[i] = n}
    IN  IF idx = {} THEN << >>
        ELSE LET lo == CHOOSE i \in idx : \A j \in idx : i <= j
                 hi == CHOOSE i \in idx : \A j \in idx : i >= j
             IN  SubSeq(events, lo, hi)

\* no parse() call failed while the characters from..to-1 were the last scanned
NoFailure(from, to) == \A f \in fails : f < from \/ f >= to

\* the parser has made one parse() call since construction / reset(), without
\* any stop(), and that call is over: it threw, or it reached the end of the
\* source, whose whole content is doc
Whole(doc) ==
    /\ pc = "idle" /\ lastOp \in {"char", "end"}
    /\ nparse = 1 /\ nstop = 0
    /\ taken \o m_is.buf = doc
    /\ m_is.st = "eof" \/ (m_is.st = "good" /\ thrown # NoError)

(***************************************************************************)
(* C1.  When stop() is called inside an elementEnd callback, no further    *)
(* sink call is made until parse() is called again: the elementEnd call    *)
(* of the pending stop is the last call in the log.                        *)
(***************************************************************************)
C1_NoEventAfterStop ==
    (stopIn > 0 /\ events[stopIn].call = "elementEnd") => Len(events) = stopIn

(***************************************************************************)
(* C2.  Across a stop()/parse() resume cycle no character is extracted     *)
(* from the source and discarded: while a scan is running, the characters  *)
(* looked up in the transition table are exactly the characters extracted. *)
(***************************************************************************)
C2_NoCharacterLost ==
    pc = "loop" => scanned = taken

(***************************************************************************)
(* C3.  The documented example <a x="1"><b/>text</a>.  As the claim states *)
(* it: parsed as a whole document by a fresh parser it succeeds with the   *)
(* seven listed events.                                                    *)
(***************************************************************************)
AttrX1 == [n \in {<< "x" >>} |-> << "1" >>]
ElemsEvents ==
    << elementStart(<< "a" >>, AttrX1), elementStart(<< "b" >>, EmptyMap),
       elementEnd(<< "b" >>), textHandle(<< "t", "e", "x", "t" >>), elementEnd(<< "a" >>) >>

C3_ExampleAsClaimed ==
    Whole(DocElems) =>
        /\ thrown = NoError
        /\ events = << documentStart >> \o ElemsEvents \o << documentEnd >>

(***************************************************************************)
(* C3, amended.  A document must begin with a "<?" definition tag: the     *)
(* example alone fails with Parsing at its second character, after         *)
(* documentStart only; preceded by the definition tag <?x?> it succeeds    *)
(* and yields documentStart, definitionHandle("x",{}), the five listed     *)
(* element and text events in their order, documentEnd.                    *)
(***************************************************************************)
C3_ExampleNeedsDefinition ==
    /\ Whole(DocElems) =>
          /\ thrown = KISAX_ERROR_PARSING
          /\ scanned = << "<", "a" >>
          /\ events = << documentStart >>
    /\ Whole(DocProlog \o DocElems) =>
          /\ thrown = NoError
          /\ events = << documentStart, definitionHandle(<< "x" >>, EmptyMap) >>
                          \o ElemsEvents \o << documentEnd >>

C3_Witness ==
    /\ Whole(DocProlog \o DocElems)
    /\ Len(events) = 8

(***************************************************************************)
(* C4.  A self-closing tag scanned without error yields                    *)
(* elementStart(name, attrs) immediately followed by elementEnd(name) and  *)
(* nothing else; and whenever one character makes the parser call the sink *)
(* twice, the first call is an elementStart and the second the elementEnd  *)
(* of the same name (never a definitionHandle or an elementEnd first).     *)
(***************************************************************************)
\* the last step scanned the ">" that completes a tag, without any failure
\* since the tag began
TagDone ==
    /\ lastOp = "char" /\ thrown = NoError
    /\ scanned[Len(scanned)] = ">"
    /\ Ref.done = "tag"
    /\ NoFailure(Ref.from, Len(scanned))
TagText == SubSeq(scanned, Ref.from, Len(scanned))
StepEvents == AtPos(Len(scanned))

C4_SelfClosing ==
    /\ (TagDone /\ Len(TagText) >= 3 /\ TagText[Len(TagText) - 1] = "/") =>
          StepEvents = << elementStart(TagName(TagText), FirstWins(Pairs(TagText))),
                          elementEnd(TagName(TagText)) >>
    /\ (lastOp = "char" /\ Len(StepEvents) >= 2) =>
          /\ StepEvents[1].call = "elementStart"
          /\ StepEvents[2] = elementEnd(StepEvents[1].name)

C4_Witness ==
    /\ TagDone /\ TagText[Len(TagText) - 1] = "/"
    /\ Pairs(TagText) # << >>
    /\ Len(StepEvents) = 2

(***************************************************************************)
(* C5.  The attribute collection handed to elementStart / definitionHandle *)
(* is exactly the name/value pairs written in that tag, each name with the *)
(* value of its first occurrence: no later occurrence overwrites it and no *)
(* entry of an earlier tag is left in it.                                  *)
(***************************************************************************)
C5_FirstOccurrenceWins ==
    (TagDone /\ StepEvents # << >>
        /\ StepEvents[1].call \in {"elementStart", "definitionHandle"}) =>
        StepEvents[1].attrs = FirstWins(Pairs(TagText))

\* a tag with a repeated name and two different values, after a tag with an attribute
C5_Witness ==
    /\ TagDone
    /\ StepEvents # << >> /\ StepEvents[1].call = "elementStart"
    /\ \E i, j \in DOMAIN Pairs(TagText) :
          /\ i < j
          /\ Pairs(TagText)[i][1] = Pairs(TagText)[j][1]
          /\ Pairs(TagText)[i][2] # Pairs(TagText)[j][2]
    /\ \E k \in DOMAIN events :
          /\ evPos[k] < Len(scanned)
          /\ events[k].call = "elementStart" /\ events[k].attrs # EmptyMap

(***************************************************************************)
(* C6.  As the claim states it: the whole input </a a="1"> fails with      *)
(* ClosingTagWithAttributes, and no elementEnd is emitted.                 *)
(***************************************************************************)
C6_ExampleAsClaimed ==
    Whole(DocClosing) =>
        /\ thrown = KISAX_ERROR_CLOSING_TAG_WITH_ATTRIBUTES
        /\ \A k \in DOMAIN events : events[k].call # "elementEnd"

(***************************************************************************)
(* C6, amended.  The ">" of a closing tag that carries at least one        *)
(* attribute makes parse() fail with ClosingTagWithAttributes, and no      *)
(* elementEnd is emitted for that tag (so for <?x?></a a="1">, after       *)
(* definitionHandle("x",{})); the whole input </a a="1"> fails earlier,    *)
(* with Parsing at its second character, because a document must begin     *)
(* with a definition tag, and emits documentStart only.                    *)
(***************************************************************************)
\* the tag the last character was read in, up to that character
PrevTag == SubSeq(scanned, RefPrev.start, Len(scanned) - 1)
\* the last step scanned a character inside a tag (outside its quoted values),
\* without any failure in the tag before it
InTag ==
    /\ lastOp = "char"
    /\ RefPrev.mode = "tag"
    /\ NoFailure(RefPrev.start, Len(scanned))

C6_ClosingTagWithAttributes ==
    /\ (lastOp = "char" /\ scanned[Len(scanned)] = ">" /\ InTag
          /\ Opener(PrevTag) = "</" /\ Pairs(PrevTag) # << >>) =>
          /\ thrown = KISAX_ERROR_CLOSING_TAG_WITH_ATTRIBUTES
          /\ pc = "idle"
          /\ \A k \in DOMAIN events :
                evPos[k] >= RefPrev.start => events[k].call # "elementEnd"
    /\ Whole(DocClosing) =>
          /\ thrown = KISAX_ERROR_PARSING
          /\ scanned = << "<", "/" >>
          /\ events = << documentStart >>
    /\ Whole(DocProlog \o DocClosing) =>
          /\ thrown = KISAX_ERROR_CLOSING_TAG_WITH_ATTRIBUTES
          /\ events = << documentStart, definitionHandle(<< "x" >>, EmptyMap) >>

C6_Witness ==
    /\ Whole(DocProlog \o DocClosing)
    /\ thrown = KISAX_ERROR_CLOSING_TAG_WITH_ATTRIBUTES
    /\ scanned = DocProlog \o DocClosing

(***************************************************************************)
(* C7.  In a comment body, "--" followed by a character other than ">"     *)
(* makes parse() fail with Parsing, and no commentHandle is emitted for    *)
(* that comment.                                                           *)
(***************************************************************************)
\* the last step scanned a character of a comment whose body so far ends in "--"
AfterTwoDashes ==
    /\ lastOp = "char"
    /\ Len(scanned) >= 3
    /\ scanned[Len(scanned) - 1] = "-" /\ scanned[Len(scanned) - 2] = "-"
    /\ RefPrev.mode = "comment"
    /\ NoFailure(RefPrev.start, Len(scanned))
    /\ Len(PrevTag) >= Len(CommentOpen) + 2
    /\ Tail_k(PrevTag, 2) = << "-", "-" >>

C7_DoubleDashInComment ==
    (AfterTwoDashes /\ scanned[Len(scanned)] # ">") =>
        /\ thrown = KISAX_ERROR_PARSING
        /\ pc = "idle"
        /\ \A k \in DOMAIN events :
              evPos[k] >= RefPrev.start => events[k].call # "commentHandle"

C7_Witness ==
    /\ AfterTwoDashes /\ scanned[Len(scanned)] \notin {">", "-"}
    /\ Len(PrevTag) > Len(CommentOpen) + 2
    /\ thrown = KISAX_ERROR_PARSING

(***************************************************************************)
(* C8.  After reset() the parser context equals that of a freshly          *)
(* constructed parser: state 0, the stop flag and the three tag flags      *)
(* false, every buffer and the attribute collection empty.                 *)
(***************************************************************************)
C8_ResetIsFresh ==
    lastOp = "reset" =>
        /\ m_state = 0
        /\ ~m_stop_flag /\ ~m_is_style /\ ~m_is_closing_tag /\ ~m_is_tag_no_body
        /\ m_tag = << >> /\ m_text = << >>
        /\ m_attribute_first = << >> /\ m_attribute_second = << >>
        /\ m_comment = << >>
        /\ m_attributes = EmptyMap

(***************************************************************************)
(* C9.  A "/" in empty-element position (after the tag name or after an    *)
(* attribute) makes parse() fail with CloseStyleTag in a tag opened with   *)
(* "<?", with ClosingTagWithNoBody in a tag opened with "</", and          *)
(* otherwise sets the empty-element flag and leaves the tag name and the   *)
(* attributes collected so far as they are; in no case has an element or   *)
(* definition event been emitted for that tag.                             *)
(***************************************************************************)
NameChars == Letters \cup Digits \cup {"_", "-", ":"}
LastNonBlank(t) ==
    CHOOSE i \in 0 .. Len(t) :
        /\ i > 0 => t[i] \notin Blank
        /\ \A j \in (i + 1) .. Len(t) : t[j] \in Blank
\* t is a tag read up to the end of its name or of one of its attributes
EmptyElementPosition(t) ==
    /\ TagName(t) # << >>
    /\ \A i \in DOMAIN TagName(t) : TagName(t)[i] \in NameChars
    /\ \/ LastNonBlank(t) = Len(Opener(t)) + Len(TagName(t))
       \/ t[LastNonBlank(t)] = "\""

C9_SlashBeforeTagEnd ==
    (lastOp = "char" /\ scanned[Len(scanned)] = "/" /\ InTag
        /\ EmptyElementPosition(PrevTag)) =>
        /\ Opener(PrevTag) = "<?" => thrown = KISAX_ERROR_CLOSE_STYLE_TAG /\ pc = "idle"
        /\ Opener(PrevTag) = "</" => thrown = KISAX_ERROR_CLOSING_TAG_WITH_NO_BODY /\ pc = "idle"
        /\ Opener(PrevTag) = "<" =>
              /\ thrown = NoError /\ pc = "loop"
              /\ m_is_tag_no_body /\ ~m_is_style /\ ~m_is_closing_tag
              /\ m_tag = TagName(PrevTag)
              /\ m_attributes = FirstWins(Pairs(PrevTag))
        /\ \A k \in DOMAIN events :
              evPos[k] > RefPrev.start => events[k].call \in {"documentStart", "documentEnd"}

C9_Witness ==
    /\ InTag /\ scanned[Len(scanned)] = "/" /\ EmptyElementPosition(PrevTag)
    /\ Opener(PrevTag) = "</"
    /\ thrown = KISAX_ERROR_CLOSING_TAG_WITH_NO_BODY

(***************************************************************************)
(* C10.  For a comment whose body contains no "--", commentHandle is       *)
(* called exactly once, with exactly the characters of the body.           *)
(***************************************************************************)
HasTwoDashes(q) == \E i \in 1 .. (Len(q) - 1) : q[i] = "-" /\ q[i + 1] = "-"
\* the body of the comment the last character completed
CommentBody ==
    SubSeq(scanned, Ref.from + Len(CommentOpen), Len(scanned) - Len(CommentClose))

C10_CommentContent ==
    (lastOp = "char" /\ Ref.done = "comment"
        /\ NoFailure(Ref.from, Len(scanned))
        /\ ~HasTwoDashes(CommentBody)) =>
        StepEvents = << commentHandle(CommentBody) >>

(***************************************************************************)
(* C11.  parse() without a bound source throws BadStream, makes no sink    *)
(* call and leaves state, flags and buffers as they are; and when the      *)
(* extraction fails with no stop pending and the source not at its end,    *)
(* parse() throws BadStream and does not call documentEnd.                 *)
(***************************************************************************)
C11_BadStream ==
    [][ /\ (pc = "idle" /\ m_is.st = "null" /\ nparse' = nparse + 1) =>
              /\ thrown' = KISAX_ERROR_BAD_STREAM
              /\ pc' = "idle"
              /\ events' = events
              /\ UNCHANGED ctxvars
        /\ (pc = "loop" /\ lastOp' = "end" /\ ~m_stop_flag /\ m_is'.st # "eof") =>
              /\ thrown' = KISAX_ERROR_BAD_STREAM
              /\ pc' = "idle"
              /\ events' = events ]_vars

\* a scan in the middle of a tag was ended by an error of the stream
C11_Witness ==
    /\ lastOp = "end" /\ m_is.st = "bad" /\ ~m_stop_flag
    /\ thrown = KISAX_ERROR_BAD_STREAM
    /\ m_tag # << >>
    /\ events[Len(events)].call # "documentEnd"

(***************************************************************************)
(* C12.  A parse() call on a parser on which neither parse() nor stop()    *)
(* was called since its construction or its last reset() makes the         *)
(* documentStart call before any other sink call; a parse() call that      *)
(* follows a parse() which returned with the stop() of a handler pending   *)
(* makes no documentStart call.                                            *)
(***************************************************************************)
\* neither parse() nor stop() was called since construction / reset()
Fresh == nparse = 0 /\ nstop = 0
\* the last parse() call returned with the stop() made by a handler pending
StoppedByHandler == pc = "idle" /\ m_stop_flag /\ stopIn > 0 /\ thrown = NoError
\* the step is the entry of a parse() call into its loop
EntersLoop == pc = "idle" /\ pc' = "loop"

C12_DocumentStartOnce ==
    [][ /\ (EntersLoop /\ Fresh) => (events' = << documentStart >>)
        /\ (EntersLoop /\ StoppedByHandler) => (events' = events /\ ~m_stop_flag') ]_vars

\* a second parse() call has resumed a stopped scan: one documentStart in the log
C12_Witness ==
    /\ lastOp = "parse" /\ pc = "loop" /\ nparse = 2 /\ nstop = 1
    /\ Len(events) >= 3
    /\ Cardinality({k \in DOMAIN events : events[k].call = "documentStart"}) = 1
    /\ events[1] = documentStart

(***************************************************************************)
(* C13.  Nesting is not validated.  The ">" of a closing tag </name> is    *)
(* answered with elementEnd(name) and no error, whatever elements were     *)
(* opened before; and the sink calls made for a tag that is completed      *)
(* without error are determined by the characters of that tag alone.       *)
(***************************************************************************)
\* t is "</", a name, and blanks only
ClosingTagShape(t) ==
    /\ Opener(t) = "</"
    /\ TagName(t) # << >>
    /\ \A i \in DOMAIN TagName(t) : TagName(t)[i] \in NameChars
    /\ LastNonBlank(t) = Len(Opener(t)) + Len(TagName(t))

\* the sink calls a completed tag t (from "<" to ">") stands for
TagEvents(t) ==
    LET name == TagName(t)
        attrs == FirstWins(Pairs(t))
    IN  IF Opener(t) = "<?" THEN << definitionHandle(name, attrs) >>
        ELSE IF Opener(t) = "</" THEN << elementEnd(name) >>
        ELSE IF Len(t) >= 3 /\ t[Len(t) - 1] = "/"
        THEN << elementStart(name, attrs), elementEnd(name) >>
        ELSE << elementStart(name, attrs) >>

C13_NestingNotValidated ==
    /\ (lastOp = "char" /\ scanned[Len(scanned)] = ">" /\ InTag
          /\ ClosingTagShape(PrevTag)) =>
          /\ thrown = NoError /\ pc = "loop"
          /\ StepEvents = << elementEnd(TagName(PrevTag)) >>
    /\ TagDone => StepEvents = TagEvents(TagText)

\* a closing tag was accepted while the only element opened has another name
C13_Witness ==
    /\ InTag /\ scanned[Len(scanned)] = ">" /\ ClosingTagShape(PrevTag)
    /\ StepEvents = << elementEnd(<< "b" >>) >>
    /\ \E k \in DOMAIN events : events[k].call = "elementStart"
    /\ \A k \in DOMAIN events :
          events[k].call = "elementStart" => events[k].name # << "b" >>
    /\ thrown = NoError

(***************************************************************************)
(* C14.  In every reachable parser context the is-definition-tag flag and  *)
(* the is-closing-tag flag are not both true.                              *)
(***************************************************************************)
C14_StyleAndClosingExclusive ==
    ~(m_is_style /\ m_is_closing_tag)

(***************************************************************************)
(* C15.  In state 5 (a blank after the tag name or after a stored          *)
(* attribute) a further blank is legal and leaves the scanner in state 5:  *)
(* a blank that follows a blank inside a tag, after its name or after one  *)
(* of its attributes, is scanned without error.                            *)
(***************************************************************************)
\* the last step scanned a character in a tag read up to a blank that follows
\* its name or one of its attributes
AfterBlankInTag ==
    /\ InTag
    /\ EmptyElementPosition(PrevTag)
    /\ PrevTag[Len(PrevTag)] \in Blank

C15_BlankInStateFive ==
    (AfterBlankInTag /\ scanned[Len(scanned)] \in Blank) =>
        /\ thrown = NoError /\ pc = "loop"
        /\ m_state = 5

(***************************************************************************)
(* C16.  When the extraction fails at the end of the input with no stop    *)
(* pending, parse() returns normally and the only sink call it makes is    *)
(* documentEnd, whatever the scanner state: the state and the buffers stay *)
(* as they are, nothing is flushed and nothing is thrown.                  *)
(***************************************************************************)
C16_EndOfInputIsNormal ==
    [][ (pc = "loop" /\ lastOp' = "end" /\ ~m_stop_flag /\ m_is'.st = "eof") =>
           /\ thrown' = NoError
           /\ pc' = "idle"
           /\ events' = Append(events, documentEnd)
           /\ UNCHANGED << m_state, m_text, m_tag, m_attributes, m_attribute_first,
                           m_attribute_second, m_comment, m_is_style, m_is_closing_tag,
                           m_is_tag_no_body >> ]_vars

\* the input ended inside an attribute value of a tag, and parse() has returned
C16_Witness ==
    /\ lastOp = "end" /\ m_is.st = "eof" /\ stopIn = 0 /\ ~m_stop_flag
    /\ thrown = NoError /\ pc = "idle"
    /\ m_state = 15 /\ m_tag # << >> /\ m_attributes # EmptyMap
    /\ events[Len(events)] = documentEnd
    /\ \A k \in DOMAIN events : events[k].call \notin {"elementStart", "elementEnd"}

(***************************************************************************)
(* C17.  Fictive states have no duration.  When the table entry read for a *)
(* character is 6, 16, 24 or 25 and the action ends without error, the     *)
(* state is then the fixed successor (8, 2, 21, 8); so while parse() is in *)
(* its loop and no parse() call has failed since construction or reset(),  *)
(* the state is none of 6, 16, 24, 25.                                     *)
(***************************************************************************)
FictiveStates == {6, 16, 24, 25}
Successor(f) == CASE f = 6 -> 8 [] f = 16 -> 2 [] f = 24 -> 21 [] f = 25 -> 8

\* the step scans a character for which the table gives the state f
Enters(f) ==
    /\ pc = "loop" /\ lastOp' = "char" /\ m_state >= 0
    /\ Len(scanned') = Len(scanned) + 1
    /\ m_states(m_state, getSymbolType(scanned'[Len(scanned')])) = f

C17_FictiveStates ==
    /\ []((pc = "loop" /\ fails = {}) => m_state \notin FictiveStates)
    /\ [][ \A f \in FictiveStates :
              (Enters(f) /\ thrown' = NoError) => m_state' = Successor(f) ]_vars

\* a lone "-" in a comment was followed by another character: state 24 was
\* entered and left for state 21
C17_Witness ==
    /\ lastOp = "char" /\ pc = "loop" /\ thrown = NoError /\ fails = {}
    /\ m_state = 21
    /\ Len(scanned) >= 2
    /\ scanned[Len(scanned) - 1] = "-" /\ scanned[Len(scanned)] # "-"
    /\ m_comment # << >> /\ m_comment[Len(m_comment)] = "-"

(***************************************************************************)
(* C18.  As the claim states it: the string passed to textHandle is the    *)
(* whole run of characters between the end of the preceding tag or comment *)
(* and the next "<", leading blanks included.                              *)
(***************************************************************************)
\* the last step scanned the "<" that ends a run of characters outside tags
\* and comments, without any failure in the run
TextDone ==
    /\ lastOp = "char" /\ thrown = NoError
    /\ scanned[Len(scanned)] = "<"
    /\ Ref.done = "text"
    /\ NoFailure(Ref.from, Len(scanned))
TextRun == SubSeq(scanned, Ref.from, Len(scanned) - 1)

C18_TextAsClaimed ==
    (TextDone /\ Ref.from > 1) => StepEvents = << textHandle(TextRun) >>

(***************************************************************************)
(* C18, amended.  In state 8 a blank is skipped (the state stays 8 and     *)
(* nothing is appended); every other character except "<" begins the text. *)
(* The string passed to textHandle is the run between the end of the       *)
(* preceding tag or comment and the next "<" without its leading blanks,   *)
(* blanks inside and at the end kept; a run of blanks only yields no       *)
(* textHandle call.                                                        *)
(***************************************************************************)
RECURSIVE DropBlanks(_)
DropBlanks(q) ==
    IF q # << >> /\ Head(q) \in Blank THEN DropBlanks(Tail(q)) ELSE q

C18_TextWithoutLeadingBlanks ==
    TextDone =>
        StepEvents = IF DropBlanks(TextRun) = << >> THEN << >>
                     ELSE << textHandle(DropBlanks(TextRun)) >>

\* a text that begins and ends with a blank has been handed to the sink
C18_Witness ==
    /\ TextDone
    /\ TextRun[1] \in Blank /\ TextRun[Len(TextRun)] \in Blank
    /\ DropBlanks(TextRun) # << >>
    /\ StepEvents = << textHandle(DropBlanks(TextRun)) >>

(***************************************************************************)
(* C19.  For every sequence of calls of parse(), stop(), reset() and       *)
(* bind(), the state that indexes the transition table is within 0..25: a  *)
(* failed parse() leaves a valid state index in m_state, and no lookup is  *)
(* made outside the table.                                                 *)
(***************************************************************************)
C19_StateIndexInTable ==
    /\ thrown # NoError => m_state \in 0 .. 25
    /\ pc = "loop" => m_state \in 0 .. 25
    /\ ~ub

(***************************************************************************)
(* C20.  A stop() made by a handler during parse(), the documentStart      *)
(* handler included, is honoured: after the step in which the handler      *)
(* called stop() the request is pending, and with a request pending the    *)
(* parse() call returns without running the action of a further character. *)
(***************************************************************************)
\* in this step of parse() a handler of the sink calls stop()
HandlerStops == lastOp' \in {"parse", "char"} /\ nstop' = nstop + 1

C20_StopHonoured ==
    [][ /\ HandlerStops => m_stop_flag'
        /\ (pc = "loop" /\ m_stop_flag) => (pc' = "idle" /\ scanned' = scanned) ]_vars
====
